---- MODULE Spec2Model ----
(***************************************************************************)
(* LookTable (src/main.cpp): a fixed-capacity hash table of atomic bucket  *)
(* heads, each the head of a singly linked chain of heap nodes, with a     *)
(* lock-free insert (CAS push at the head), a find (chain walk) and an     *)
(* erase (CAS of the head, immediate delete), and an atomic 64-bit         *)
(* live-entry counter.                                                     *)
(*                                                                         *)
(* Every shared-memory access of the three methods is one action.  Heap    *)
(* nodes live at addresses 1..MaxNodes; a pointer is a record [a, d] of an *)
(* address (0 = nullptr) and a flag d that is TRUE once the node the       *)
(* pointer was obtained for has been deleted (the pointer dangles, even if *)
(* the allocator has handed the address out again).  compare_exchange      *)
(* compares addresses only.                                                *)
(***************************************************************************)
EXTENDS Integers, Sequences, FiniteSets, TLC

\* ------------------------------------------------------------- bounds
\* The calls one thread makes in the single-threaded specifications.
SeqOps == 4
\* The calls each thread makes when the threads choose their calls freely.
ConcOps == 2
\* The threads, and the keys each thread works through in the two
\* concurrent tests (NUM_THREADS, INSERTIONS_PER_THREAD, OPERATIONS_PER_THREAD
\* of lines 209-210 and 244-245, scaled down).
NumThreads == 2
PerThread == 2
\* The heap: room for every node the specifications below can allocate.
MaxNodes == (NumThreads * PerThread) + 1

\* ---------------------------------------------- 64-bit unsigned words
\* A uint64_t is a sequence of 8 bytes, least significant first (the
\* model checker's integers are 32 bits wide).  Binding a value through a
\* singleton set, The({e(v) : v \in {x}}), only makes x evaluate before e.
The(S) == CHOOSE v \in S : TRUE

\* The bytes of 2^64 - 1 - x.
Complement(x) == [i \in 1..8 |-> 255 - x[i]]

\* The bytes of a number 0 <= n < 2^31.
BytesOf(n) ==
  <<n % 256, (n \div 256) % 256, (n \div 65536) % 256, (n \div 16777216) % 256,
    0, 0, 0, 0>>

\* Conversion int64_t -> uint64_t (two's complement for negative values).
U64(n) ==
  The({IF v >= 0 THEN BytesOf(v) ELSE Complement(BytesOf(-v - 1)) : v \in {n}})

\* x + y + c modulo 2^64, byte by byte with the carry.
AddBytes(x, y, c) ==
  LET s1 == x[1] + y[1] + c
      s2 == x[2] + y[2] + s1 \div 256
      s3 == x[3] + y[3] + s2 \div 256
      s4 == x[4] + y[4] + s3 \div 256
      s5 == x[5] + y[5] + s4 \div 256
      s6 == x[6] + y[6] + s5 \div 256
      s7 == x[7] + y[7] + s6 \div 256
      s8 == x[8] + y[8] + s7 \div 256
  IN  <<s1 % 256, s2 % 256, s3 % 256, s4 % 256, s5 % 256, s6 % 256, s7 % 256, s8 % 256>>

\* x + y modulo 2^64.
Add64(x, y) == The({AddBytes(a, b, 0) : a \in {x}, b \in {y}})

\* x - y modulo 2^64  (x + ~y + 1).
Sub64(x, y) == The({AddBytes(a, Complement(b), 1) : a \in {x}, b \in {y}})

\* x * y modulo 2^64: the schoolbook product, column by column with the
\* carry, the columns above the 8th dropped.
MulBytes(x, y) ==
  LET s1 == x[1]*y[1]
      s2 == x[1]*y[2] + x[2]*y[1] + s1 \div 256
      s3 == x[1]*y[3] + x[2]*y[2] + x[3]*y[1] + s2 \div 256
      s4 == x[1]*y[4] + x[2]*y[3] + x[3]*y[2] + x[4]*y[1] + s3 \div 256
      s5 == x[1]*y[5] + x[2]*y[4] + x[3]*y[3] + x[4]*y[2] + x[5]*y[1] + s4 \div 256
      s6 == x[1]*y[6] + x[2]*y[5] + x[3]*y[4] + x[4]*y[3] + x[5]*y[2] + x[6]*y[1]
            + s5 \div 256
      s7 == x[1]*y[7] + x[2]*y[6] + x[3]*y[5] + x[4]*y[4] + x[5]*y[3] + x[6]*y[2]
            + x[7]*y[1] + s6 \div 256
      s8 == x[1]*y[8] + x[2]*y[7] + x[3]*y[6] + x[4]*y[5] + x[5]*y[4] + x[6]*y[3]
            + x[7]*y[2] + x[8]*y[1] + s7 \div 256
  IN  <<s1 % 256, s2 % 256, s3 % 256, s4 % 256, s5 % 256, s6 % 256, s7 % 256, s8 % 256>>

Mul64(x, y) == The({MulBytes(a, b) : a \in {x}, b \in {y}})

\* (256 * r + v) % m for 0 <= r < m, 2^16 <= m < 2^30 and a byte v, without
\* leaving 32 bits: with q = r \div (m \div 256), 256 * r + v - q * m is
\* 256 * (r % (m \div 256)) - q * (m % 256) + v.
ModByte(r, v, m) ==
  (256 * (r % (m \div 256)) - (r \div (m \div 256)) * (m % 256) + v) % m

\* The remainder of the bytes a modulo m, most significant byte first.
ModBytes(a, m) ==
  The({The({The({The({The({The({The({The({r1
    : r1 \in {ModByte(r2, a[1], m)}}) : r2 \in {ModByte(r3, a[2], m)}})
    : r3 \in {ModByte(r4, a[3], m)}}) : r4 \in {ModByte(r5, a[4], m)}})
    : r5 \in {ModByte(r6, a[5], m)}}) : r6 \in {ModByte(r7, a[6], m)}})
    : r7 \in {ModByte(r8, a[7], m)}}) : r8 \in {ModByte(0, a[8], m)}})

\* x % m for a 64-bit x; the result is a plain integer.
Mod64(x, m) == The({ModBytes(a, m) : a \in {x}})

\* The 64-bit word millions * 10^6 + units.
Word(millions, units) == Add64(Mul64(U64(millions), U64(1000000)), U64(units))

\* ------------------------------------------------------- Triple_Hash
MAX_SIZE == 1000000
PRIME1 == Word(2654, 435761)
PRIME2 == Word(2246, 822519)
PRIME3 == Word(3266, 489917)
MOD1 == 1000000007
MOD2 == 1000000009
MOD3 == MAX_SIZE

\* One mixing stage: (x * prime) % mod, the product taken modulo 2^64.
Stage(x, prime, mod) == Mod64(Mul64(U64(x), prime), mod)

get(id) ==
  The({The({The({hash3 : hash3 \in {Stage(hash2, PRIME3, MOD3)}}) :
                 hash2 \in {Stage(hash1, PRIME2, MOD2)}}) :
                 hash1 \in {Stage(id, PRIME1, MOD1)}})

\* ------------------------------------------------------------ inputs
\* Order ids: 100, 201949 and 403798 share bucket 245106; 200 and 1033281
\* share bucket 80959; 0, 1, 2 and 3 each have a bucket of their own.
KeyPool == <<100, 201949, 403798, 200, 1033281, 0, 1, 2, 3>>
Keys == {100, 201949, 200}
Payloads == {42, 43}

\* The j-th key of thread t in the concurrent tests: the threads' key sets
\* are disjoint (lines 223 and 258), and keys of different threads collide.
KeyOf(t, j) == KeyPool[((j - 1) * NumThreads) + t]

\* The bucket of every key of the model, computed once.
Hash == [k \in {KeyPool[i] : i \in 1..Len(KeyPool)} |-> get(k)]
Buckets == {Hash[k] : k \in DOMAIN Hash}

Threads == 1..NumThreads
Addr == 1..MaxNodes

\* ------------------------------------------------------------- state
VARIABLES
  table,        \* std::array<std::atomic<Node *>, MAX_SIZE>, on the buckets used
  node,         \* the heap: Node {id, data, next} at every address
  alive,        \* the addresses holding a node that is allocated and not deleted
  sizeCounter,  \* std::atomic<uint64_t>, as 8 bytes
  thread,       \* per thread: where it is in its call, and the call's locals
  ub,           \* the kinds of undefined behaviour executed so far
  halted,       \* the process has crashed
  given,        \* per key, the payloads insert was called with, latest first
  snap          \* the table as it was when the running call was made

vars == <<table, node, alive, sizeCounter, thread, ub, halted, given, snap>>

NULL == [a |-> 0, d |-> FALSE]
Ptr(x) == [a |-> x, d |-> FALSE]

\* Node::Node(id, t): id(id), data(t), next(nullptr)
Node(id, t) == [id |-> id, data |-> t, next |-> NULL]
NoNode == Node(0, 0)

Idle == [pc |-> "idle", op |-> "none", id |-> 0, data |-> 0, newNode |-> NULL,
         oldHead |-> NULL, next |-> NULL, currentNode |-> NULL, ret |-> NULL,
         calls |-> 0]

\* A call returns: its locals go out of scope, the caller keeps the result.
Return(r, result) ==
  [Idle EXCEPT !.op = r.op, !.id = r.id, !.data = r.data, !.ret = result,
               !.calls = r.calls + 1]

\* A new call of op(id, data) by a thread whose record is r.
Begin(r, op, id, data) ==
  [Idle EXCEPT !.op = op, !.id = id, !.data = data, !.calls = r.calls]

\* ------------------------------------------------------- the allocator
\* Every pointer the program holds, as a set of addresses.
Referenced ==
  {table[b].a : b \in Buckets} \cup {node[x].next.a : x \in Addr}
  \cup UNION {{thread[t].newNode.a, thread[t].oldHead.a, thread[t].next.a,
               thread[t].currentNode.a, thread[t].ret.a} : t \in Threads}

Min(S) == CHOOSE x \in S : \A y \in S : x <= y

\* operator new returns any address that holds no live node: one that a
\* dangling pointer still refers to, or a fresh one (the fresh ones are
\* interchangeable, so the lowest stands for all of them).
AllocChoices ==
  LET free == Addr \ alive
      fresh == free \ Referenced
  IN  (free \cap Referenced) \cup (IF fresh = {} THEN {} ELSE {Min(fresh)})

\* After delete of the node at x every pointer to x dangles.
Zap(p, x) == IF p.a = x THEN [p EXCEPT !.d = TRUE] ELSE p

ZapThread(r, x) ==
  [r EXCEPT !.newNode = Zap(@, x), !.oldHead = Zap(@, x), !.next = Zap(@, x),
            !.currentNode = Zap(@, x), !.ret = Zap(@, x)]

\* operator delete on address x, the deleting thread's record becoming r.
Free(t, r, x) ==
  /\ alive' = alive \ {x}
  /\ node' = [y \in Addr |-> IF y = x THEN NoNode
                              ELSE [node[y] EXCEPT !.next = Zap(@, x)]]
  /\ table' = [b \in Buckets |-> Zap(table[b], x)]
  /\ thread' = [u \in Threads |-> ZapThread(IF u = t THEN r ELSE thread[u], x)]

\* ------------------------------------------------------ reading a node
\* A pointer value that freed or reused memory may hold.
StalePtrs == {NULL} \cup {[a |-> x, d |-> x \notin alive] : x \in Addr}

OtherId(id) == CHOOSE j \in Keys : j # id

\* What a thread looking for id reads through p (p not null): the node's id
\* and next, or, through a dangling pointer, whatever the memory holds now.
Fields(p, id) ==
  IF p.d THEN {[id |-> i, next |-> n] : i \in {id, OtherId(id)}, n \in StalePtrs}
  ELSE {[id |-> node[p.a].id, next |-> node[p.a].next]}

\* The undefined behaviour recorded by a read through p.
ReadUB(p) == IF p.d THEN {"read_freed"} ELSE {}

\* A store that does not compare (the mutant of SameAddress).
AnyAddress(stored, expected) == TRUE

\* compare_exchange_weak(expected, desired) compares the stored address
\* with the expected one.
SameAddress(stored, expected) == stored.a = expected.a

Init ==
  /\ table = [b \in Buckets |-> NULL]
  /\ node = [x \in Addr |-> NoNode]
  /\ alive = {}
  /\ sizeCounter = U64(0)
  /\ thread = [t \in Threads |-> Idle]
  /\ ub = {}
  /\ halted = FALSE
  /\ given = [k \in DOMAIN Hash |-> <<>>]
  /\ snap = [size |-> U64(0), chains |-> [b \in Buckets |-> <<>>]]

\* ------------------------------------------------------------ insert
\* Lines 62-64: the call, the hash and the allocation of the new node.
InsertAlloc(t, id, data) ==
  /\ ~halted /\ thread[t].pc = "idle"
  /\ \E x \in AllocChoices :
       /\ alive' = alive \cup {x}
       /\ node' = [node EXCEPT ![x] = Node(id, data)]
       /\ thread' = [thread EXCEPT ![t] =
            [Begin(@, "insert", id, data) EXCEPT !.pc = "i_load", !.newNode = Ptr(x)]]
  /\ given' = [given EXCEPT ![id] = <<data>> \o @]
  /\ UNCHANGED <<table, sizeCounter, ub, halted>>

\* InsertLoad without line 67: the new node keeps next = nullptr (the
\* mutant of InsertLoad).
InsertLoadNoLink(t) ==
  LET r == thread[t]
      head == table[Hash[r.id]]
  IN  /\ ~halted /\ r.pc = "i_load"
      /\ thread' = [thread EXCEPT ![t] = [r EXCEPT !.pc = "i_cas", !.oldHead = head]]
      /\ UNCHANGED <<table, node, alive, sizeCounter, ub, halted, given, snap>>

\* Lines 65-67: oldHead = head.load(); newNode->next = oldHead.
InsertLoad(t) ==
  LET r == thread[t]
      head == table[Hash[r.id]]
  IN  /\ ~halted /\ r.pc = "i_load"
      /\ thread' = [thread EXCEPT ![t] = [r EXCEPT !.pc = "i_cas", !.oldHead = head]]
      /\ node' = [node EXCEPT ![r.newNode.a].next = head]
      /\ UNCHANGED <<table, alive, sizeCounter, ub, halted, given, snap>>

\* InsertCas that gives up after a failed exchange: the call goes on to
\* the increment without publishing its node (the mutant of InsertCas).
InsertCasNoRetry(t) ==
  LET r == thread[t]
      head == table[Hash[r.id]]
  IN  /\ ~halted /\ r.pc = "i_cas"
      /\ IF SameAddress(head, r.oldHead)
         THEN table' = [table EXCEPT ![Hash[r.id]] = r.newNode]
         ELSE UNCHANGED table
      /\ thread' = [thread EXCEPT ![t] = [r EXCEPT !.pc = "i_inc"]]
      /\ UNCHANGED <<node, alive, sizeCounter, ub, halted, given, snap>>

\* InsertCas without line 70: after a failed exchange the new node keeps
\* the next it had (the mutant of InsertCas).
InsertCasStaleNext(t) ==
  LET r == thread[t]
      head == table[Hash[r.id]]
  IN  /\ ~halted /\ r.pc = "i_cas"
      /\ IF SameAddress(head, r.oldHead)
         THEN /\ table' = [table EXCEPT ![Hash[r.id]] = r.newNode]
              /\ thread' = [thread EXCEPT ![t] = [r EXCEPT !.pc = "i_inc"]]
         ELSE /\ thread' = [thread EXCEPT ![t] = [r EXCEPT !.oldHead = head]]
              /\ UNCHANGED table
      /\ UNCHANGED <<node, alive, sizeCounter, ub, halted, given, snap>>

\* Lines 68-72: one round of the compare_exchange_weak loop.  A spurious
\* failure leaves oldHead as it is and changes nothing (a stuttering step).
InsertCas(t) ==
  LET r == thread[t]
      head == table[Hash[r.id]]
  IN  /\ ~halted /\ r.pc = "i_cas"
      /\ IF SameAddress(head, r.oldHead)
         THEN /\ table' = [table EXCEPT ![Hash[r.id]] = r.newNode]
              /\ thread' = [thread EXCEPT ![t] = [r EXCEPT !.pc = "i_inc"]]
              /\ UNCHANGED node
         ELSE /\ thread' = [thread EXCEPT ![t] = [r EXCEPT !.oldHead = head]]
              /\ node' = [node EXCEPT ![r.newNode.a].next = head]
              /\ UNCHANGED table
      /\ UNCHANGED <<alive, sizeCounter, ub, halted, given, snap>>

\* Line 73: sizeCounter.fetch_add(1), and the return.
InsertInc(t) ==
  LET r == thread[t]
  IN  /\ ~halted /\ r.pc = "i_inc"
      /\ sizeCounter' = Add64(sizeCounter, U64(1))
      /\ thread' = [thread EXCEPT ![t] = Return(r, NULL)]
      /\ UNCHANGED <<table, node, alive, ub, halted, given, snap>>

\* -------------------------------------------------------------- find
\* Lines 78-79: the call, the hash and currentNode = table[hash].load().
FindLoad(t, id) ==
  /\ ~halted /\ thread[t].pc = "idle"
  /\ thread' = [thread EXCEPT ![t] =
       [Begin(@, "find", id, 0) EXCEPT !.pc = "f_loop",
                                      !.currentNode = table[Hash[id]]]]
  /\ UNCHANGED <<table, node, alive, sizeCounter, ub, halted, given>>

\* FindStep without the comparison of line 82: the first node of the chain
\* is returned whatever its id (the mutant of FindStep).
FindStepAny(t) ==
  LET r == thread[t]
      cur == r.currentNode
  IN  /\ ~halted /\ r.pc = "f_loop"
      /\ IF cur.a = 0
         THEN /\ thread' = [thread EXCEPT ![t] = Return(r, NULL)]
              /\ UNCHANGED ub
         ELSE /\ ub' = ub \cup ReadUB(cur)
              /\ thread' = [thread EXCEPT ![t] = Return(r, cur)]
      /\ UNCHANGED <<table, node, alive, sizeCounter, halted, given, snap>>

\* FindStep that counts a miss: it decrements sizeCounter when the walk
\* ends at nullptr (the mutant of FindStep).
FindStepCounting(t) ==
  LET r == thread[t]
      cur == r.currentNode
  IN  /\ ~halted /\ r.pc = "f_loop"
      /\ IF cur.a = 0
         THEN /\ thread' = [thread EXCEPT ![t] = Return(r, NULL)]
              /\ sizeCounter' = Sub64(sizeCounter, U64(1))
              /\ UNCHANGED ub
         ELSE /\ ub' = ub \cup ReadUB(cur)
              /\ \E f \in Fields(cur, r.id) :
                   thread' = [thread EXCEPT ![t] =
                     IF f.id = r.id THEN Return(r, cur)
                     ELSE [r EXCEPT !.currentNode = f.next]]
              /\ UNCHANGED sizeCounter
      /\ UNCHANGED <<table, node, alive, halted, given, snap>>

\* Lines 80-88: one round of the while loop.
FindStep(t) ==
  LET r == thread[t]
      cur == r.currentNode
  IN  /\ ~halted /\ r.pc = "f_loop"
      /\ IF cur.a = 0
         THEN /\ thread' = [thread EXCEPT ![t] = Return(r, NULL)]
              /\ UNCHANGED ub
         ELSE /\ ub' = ub \cup ReadUB(cur)
              /\ \E f \in Fields(cur, r.id) :
                   thread' = [thread EXCEPT ![t] =
                     IF f.id = r.id THEN Return(r, cur)
                     ELSE [r EXCEPT !.currentNode = f.next]]
      /\ UNCHANGED <<table, node, alive, sizeCounter, halted, given, snap>>

\* ------------------------------------------------------------- erase
\* Lines 93-95: the call, the hash and oldHead = head.load().
EraseLoad(t, id) ==
  /\ ~halted /\ thread[t].pc = "idle"
  /\ thread' = [thread EXCEPT ![t] =
       [Begin(@, "erase", id, 0) EXCEPT !.pc = "e_loop",
                                       !.oldHead = table[Hash[id]]]]
  /\ UNCHANGED <<table, node, alive, sizeCounter, ub, halted, given>>

\* Lines 96-100 and 107: the loop test, the comparison of the id and, on a
\* match, next = oldHead->next; on a mismatch oldHead = oldHead->next.
EraseTest(t) ==
  LET r == thread[t]
      cur == r.oldHead
  IN  /\ ~halted /\ r.pc = "e_loop"
      /\ IF cur.a = 0
         THEN /\ thread' = [thread EXCEPT ![t] = [r EXCEPT !.pc = "e_dec"]]
              /\ UNCHANGED ub
         ELSE /\ ub' = ub \cup ReadUB(cur)
              /\ \E f \in Fields(cur, r.id) :
                   thread' = [thread EXCEPT ![t] =
                     IF f.id = r.id THEN [r EXCEPT !.pc = "e_cas", !.next = f.next]
                     ELSE [r EXCEPT !.oldHead = f.next]]
      /\ UNCHANGED <<table, node, alive, sizeCounter, halted, given, snap>>

\* Line 101: head.compare_exchange_weak(oldHead, next).  On failure oldHead
\* takes the value of head; the weak form may also fail although the
\* addresses are equal.
EraseCas(t) ==
  LET r == thread[t]
      head == table[Hash[r.id]]
  IN  /\ ~halted /\ r.pc = "e_cas"
      /\ \/ /\ SameAddress(head, r.oldHead)
            /\ table' = [table EXCEPT ![Hash[r.id]] = r.next]
            /\ thread' = [thread EXCEPT ![t] = [r EXCEPT !.pc = "e_del"]]
         \/ /\ thread' = [thread EXCEPT ![t] = [r EXCEPT !.pc = "e_adv", !.oldHead = head]]
            /\ UNCHANGED table
      /\ UNCHANGED <<node, alive, sizeCounter, ub, halted, given, snap>>

\* Line 107 after a failed exchange: oldHead = oldHead->next, with oldHead
\* the head just read, which may be null (the process then crashes).
EraseAdvance(t) ==
  LET r == thread[t]
      cur == r.oldHead
  IN  /\ ~halted /\ r.pc = "e_adv"
      /\ IF cur.a = 0
         THEN /\ ub' = ub \cup {"null_deref"}
              /\ halted' = TRUE
              /\ UNCHANGED thread
         ELSE /\ ub' = ub \cup ReadUB(cur)
              /\ \E f \in Fields(cur, r.id) :
                   thread' = [thread EXCEPT ![t] =
                                [r EXCEPT !.pc = "e_loop", !.oldHead = f.next]]
              /\ UNCHANGED halted
      /\ UNCHANGED <<table, node, alive, sizeCounter, given, snap>>

\* Lines 103-104: delete oldHead; return.  Through a dangling pointer the
\* delete frees whatever node lives at the address now, corrupts the heap
\* (no node is freed) or crashes the process.
EraseDelete(t) ==
  LET r == thread[t]
      x == r.oldHead.a
  IN  /\ ~halted /\ r.pc = "e_del"
      /\ IF ~r.oldHead.d
         THEN /\ Free(t, Return(r, NULL), x)
              /\ UNCHANGED <<ub, halted>>
         ELSE /\ ub' = ub \cup {"bad_delete"}
              /\ \/ /\ x \in alive
                    /\ Free(t, Return(r, NULL), x)
                    /\ UNCHANGED halted
                 \/ /\ x \notin alive
                    /\ thread' = [thread EXCEPT ![t] = Return(r, NULL)]
                    /\ UNCHANGED <<table, node, alive, halted>>
                 \/ /\ halted' = TRUE
                    /\ UNCHANGED <<table, node, alive, thread>>
      /\ UNCHANGED <<sizeCounter, given, snap>>

\* Line 109: sizeCounter.fetch_sub(1), after the loop ran off the chain.
EraseDec(t) ==
  LET r == thread[t]
  IN  /\ ~halted /\ r.pc = "e_dec"
      /\ sizeCounter' = Sub64(sizeCounter, U64(1))
      /\ thread' = [thread EXCEPT ![t] = Return(r, NULL)]
      /\ UNCHANGED <<table, node, alive, ub, halted, given, snap>>

\* The steps of a call in progress.
InsertSteps(t) == InsertLoad(t) \/ InsertCas(t) \/ InsertInc(t)

EraseSteps(t) ==
  EraseTest(t) \/ EraseCas(t) \/ EraseAdvance(t) \/ EraseDelete(t) \/ EraseDec(t)

Step(t) == InsertSteps(t) \/ FindStep(t) \/ EraseSteps(t)

\* A read through a dangling pointer may also crash the process.
ReadCrash(t) ==
  LET r == thread[t]
      cur == IF r.pc = "f_loop" THEN r.currentNode ELSE r.oldHead
  IN  /\ ~halted /\ r.pc \in {"f_loop", "e_loop", "e_adv"}
      /\ cur.d
      /\ ub' = ub \cup ReadUB(cur)
      /\ halted' = TRUE
      /\ UNCHANGED <<table, node, alive, sizeCounter, thread, given, snap>>

\* ------------------------------------------------ the table, observed
\* The addresses of the nodes reached from pointer p, in chain order; the
\* walk stops at a dangling pointer and after fuel nodes.
RECURSIVE Walk(_, _)
Walk(p, fuel) ==
  IF p.a = 0 \/ p.d \/ fuel = 0 THEN <<>>
  ELSE <<p.a>> \o Walk(node[p.a].next, fuel - 1)

Chain(b) == Walk(table[b], MaxNodes + 1)

\* The (id, data) pairs of bucket b in chain order.
Entries(b) == [i \in 1..Len(Chain(b)) |-> <<node[Chain(b)[i]].id, node[Chain(b)[i]].data>>]

\* size()
size == sizeCounter

Snapshot == [size |-> size, chains |-> [b \in Buckets |-> Entries(b)]]

\* find(id) run to its end with no other thread taking a step: the pointer
\* it returns (NULL for nullopt).
RECURSIVE FindFrom(_, _, _)
FindFrom(p, id, fuel) ==
  IF p.a = 0 \/ p.d \/ fuel = 0 THEN NULL
  ELSE IF node[p.a].id = id THEN p
  ELSE FindFrom(node[p.a].next, id, fuel - 1)

find(id) == FindFrom(table[Hash[id]], id, MaxNodes + 1)

\* -------------------------------------------- one thread, any calls
SeqInsert(id, data) ==
  /\ thread[1].calls < SeqOps
  /\ InsertAlloc(1, id, data)
  /\ snap' = Snapshot

SeqFind(id) ==
  /\ thread[1].calls < SeqOps
  /\ FindLoad(1, id)
  /\ snap' = Snapshot

SeqErase(id) ==
  /\ thread[1].calls < SeqOps
  /\ EraseLoad(1, id)
  /\ snap' = Snapshot

NextSeq ==
  \/ \E id \in Keys, data \in Payloads : SeqInsert(id, data)
  \/ \E id \in Keys : SeqFind(id)
  \/ \E id \in Keys : SeqErase(id)
  \/ Step(1)

SpecSeq == Init /\ [][NextSeq]_vars

\* ------------------------------------------ several threads, any calls
\* Each thread makes up to ConcOps calls; the payload is the id, as in the
\* tests of lines 224 and 259.
ConcInsert(t, id) ==
  /\ thread[t].calls < ConcOps
  /\ InsertAlloc(t, id, id)
  /\ UNCHANGED snap

ConcFind(t, id) ==
  /\ thread[t].calls < ConcOps
  /\ FindLoad(t, id)
  /\ UNCHANGED snap

ConcErase(t, id) ==
  /\ thread[t].calls < ConcOps
  /\ EraseLoad(t, id)
  /\ UNCHANGED snap

Next ==
  \E t \in Threads :
    \/ \E id \in Keys : ConcInsert(t, id)
    \/ \E id \in Keys : ConcFind(t, id)
    \/ \E id \in Keys : ConcErase(t, id)
    \/ Step(t)
    \/ ReadCrash(t)

Spec == Init /\ [][Next]_vars

\* The thread of SpecSeq never stops in the middle of a call.
FairSeq == SpecSeq /\ WF_vars(Step(1))

\* --------------------------- one thread, inserts of distinct keys, finds
RTInsert(id, data) ==
  /\ given[id] = <<>>
  /\ SeqInsert(id, data)

NextRT ==
  \/ \E id \in Keys, data \in Payloads : RTInsert(id, data)
  \/ \E id \in Keys : SeqFind(id)
  \/ InsertSteps(1)
  \/ FindStep(1)

SpecRT == Init /\ [][NextRT]_vars

\* ------------- TEST_CASE("Concurrent Insertion Test"), lines 207-240
\* Thread t inserts its keys KeyOf(t, 1), KeyOf(t, 2), ... with the id as
\* the payload.
TestInsert(t) ==
  /\ thread[t].calls < PerThread
  /\ InsertAlloc(t, KeyOf(t, thread[t].calls + 1), KeyOf(t, thread[t].calls + 1))
  /\ UNCHANGED snap

NextInsert == \E t \in Threads : TestInsert(t) \/ InsertSteps(t)

SpecInsert == Init /\ [][NextInsert]_vars

\* ---------- TEST_CASE("Concurrent Insert and Erase Test"), lines 242-275
\* Thread t does insert(id, id); erase(id) for each of its keys in turn:
\* its even calls are the inserts, its odd calls the erases.
TestInsertThenErase(t) ==
  LET n == thread[t].calls
      id == KeyOf(t, (n \div 2) + 1)
  IN  /\ n < 2 * PerThread
      /\ IF n % 2 = 0 THEN InsertAlloc(t, id, id)
         ELSE EraseLoad(t, id) /\ UNCHANGED given
      /\ UNCHANGED snap

NextInsertErase ==
  \E t \in Threads :
    TestInsertThenErase(t) \/ InsertSteps(t) \/ EraseSteps(t) \/ ReadCrash(t)

SpecInsertErase == Init /\ [][NextInsertErase]_vars

\* ------------------------------------------------------------ claims
\* Thread t's last call was op and has returned.
Returned(t, op) == thread[t].pc = "idle" /\ thread[t].op = op

\* No call is in flight.
Quiescent == \A t \in Threads : thread[t].pc = "idle"

\* The positions of key id in its bucket chain when the running (or last)
\* call of the single thread was made.
SnapIds(id) ==
  {i \in DOMAIN snap.chains[Hash[id]] : snap.chains[Hash[id]][i][1] = id}

\* The pointer a traversing thread is about to dereference.
Cursor(t) == IF thread[t].pc = "f_loop" THEN thread[t].currentNode ELSE thread[t].oldHead

\* C1: no node is freed while an in-flight find or erase traversal still
\* holds a pointer to it, and no thread reads id, data or next of a freed
\* node.
C1_NoFreeWhileReferenced ==
  /\ \A t \in Threads :
       thread[t].pc \in {"f_loop", "e_loop", "e_cas", "e_adv"} => ~Cursor(t).d
  /\ "read_freed" \notin ub

\* C2: single-threaded, a key present in exactly one node (at the head or
\* further down its chain) is absent once erase of that key has returned.
C2_EraseRemoves ==
  (Returned(1, "erase") /\ Cardinality(SnapIds(thread[1].id)) = 1)
    => find(thread[1].id) = NULL

\* C3: single-threaded, erase of a present key leaves size() one less than
\* it was before the call.
C3_EraseDecrements ==
  (Returned(1, "erase") /\ SnapIds(thread[1].id) # {})
    => size = Sub64(snap.size, U64(1))

\* C4: erase of a key that is not in the table changes neither size() nor
\* any bucket chain.
C4_EraseAbsentNoOp ==
  (Returned(1, "erase") /\ SnapIds(thread[1].id) = {})
    => /\ size = snap.size
       /\ \A b \in Buckets : Entries(b) = snap.chains[b]

\* C5: a call that runs alone returns: under FairSeq every call that has
\* started eventually returns.
C5_EveryCallReturns == (thread[1].pc # "idle") ~> (thread[1].pc = "idle")

\* C6: single-threaded, after inserts of distinct keys (some sharing a
\* bucket) every find of an inserted key returns the node holding the
\* payload inserted with that key, and find run on the table at rest does
\* so for every inserted key.
C6_RoundTrip ==
  /\ (Returned(1, "find") /\ given[thread[1].id] # <<>>)
       => /\ thread[1].ret # NULL
          /\ node[thread[1].ret.a].id = thread[1].id
          /\ node[thread[1].ret.a].data = given[thread[1].id][1]
  /\ Quiescent =>
       \A k \in Keys : given[k] # <<>> =>
         find(k) # NULL /\ node[find(k).a].data = given[k][1]

\* A find has returned a key that is not at the head of its chain.
C6_Witness ==
  /\ Returned(1, "find")
  /\ thread[1].ret # NULL
  /\ thread[1].ret # table[Hash[thread[1].id]]
  /\ node[thread[1].ret.a].data = given[thread[1].id][1]

\* Every thread of the insertion test has made all its inserts.
AllInserted == \A t \in Threads : thread[t].pc = "idle" /\ thread[t].calls = PerThread

TestKeys == {KeyOf(t, j) : t \in Threads, j \in 1..PerThread}

\* C7: once all threads of the concurrent insertion test have finished,
\* size() is NumThreads * PerThread and every key is found with its payload.
C7_ConcurrentInsertCount ==
  AllInserted =>
    /\ size = U64(NumThreads * PerThread)
    /\ \A k \in TestKeys : find(k) # NULL /\ node[find(k).a].data = k

\* All threads have finished and one bucket holds keys of several threads.
C7_Witness ==
  /\ AllInserted
  /\ \E b \in Buckets : Len(Chain(b)) >= 3
  /\ \A k \in TestKeys : find(k) # NULL

\* Every thread of the insert-and-erase test has made all its calls.
AllErased ==
  \A t \in Threads : thread[t].pc = "idle" /\ thread[t].calls = 2 * PerThread

\* C8: once all threads of the concurrent insert-then-erase test have
\* finished, size() is 0 and every key is absent.
C8_InsertEraseLeavesEmpty ==
  AllErased => size = U64(0) /\ \A k \in TestKeys : find(k) = NULL

\* The nodes reachable from the bucket heads.
Reachable == UNION {{Chain(b)[i] : i \in 1..Len(Chain(b))} : b \in Buckets}

\* C9: with no call in flight, size() is the number of nodes reachable
\* from the bucket heads.
C9_SizeCountsReachable == Quiescent => size = U64(Cardinality(Reachable))

\* The entries of bucket b whose key is not id, in chain order.
Others(b, id) == SelectSeq(Entries(b), LAMBDA e : e[1] # id)

\* C10: no step of an erase(id) call touches an entry of another key: the
\* entries of the other keys stay where they are, in id's bucket in the
\* same order, and in every other bucket.
C10_EraseFrame ==
  [][\A t \in Threads :
       EraseSteps(t) => \A b \in Buckets : Others(b, thread[t].id)' = Others(b, thread[t].id)]_vars

\* A step of a find call: the call itself (lines 78-79) or a round of its
\* loop (lines 80-88).
FindSteps(t) == FindStep(t) \/ \E id \in Keys : FindLoad(t, id)

\* C11: no step of a find call, whether the call ends with a payload or
\* with nullopt, changes a bucket head, a node (its id, data or next link),
\* the set of allocated nodes or the live-entry counter.
C11_FindFrame ==
  [][\A t \in Threads : FindSteps(t) => UNCHANGED <<table, node, alive, sizeCounter>>]_vars

\* A find has walked a chain of other keys to its end and returned nullopt.
C11_Witness ==
  /\ \E t \in Threads :
       /\ Returned(t, "find") /\ thread[t].ret = NULL
       /\ Len(Chain(Hash[thread[t].id])) >= 1
  /\ sizeCounter # U64(0)

\* --------------------- several threads erasing the one node of a key
\* Thread 1 puts key 100 at the head of its bucket, alone or in front of
\* the node of 201949; then every thread calls erase(100) once.
RaceKey == KeyPool[1]

RaceSetup(id) ==
  /\ given[RaceKey] = <<>> /\ given[id] = <<>>
  /\ id \in {RaceKey, KeyPool[2]}
  /\ InsertAlloc(1, id, id)
  /\ UNCHANGED snap

RaceErase(t) ==
  /\ given[RaceKey] # <<>>
  /\ \A u \in Threads : thread[u].pc \notin {"i_load", "i_cas", "i_inc"}
  /\ thread[t].op # "erase"
  /\ EraseLoad(t, RaceKey)
  /\ UNCHANGED snap

NextRace ==
  \/ \E id \in Keys : RaceSetup(id)
  \/ \E t \in Threads : RaceErase(t) \/ InsertSteps(t) \/ EraseSteps(t) \/ ReadCrash(t)

SpecRace == Init /\ [][NextRace]_vars

\* Every thread's erase(RaceKey) has returned.
RaceDone == \A t \in Threads : Returned(t, "erase")

\* C12: when several threads erase a key held by one node, no thread
\* deletes a node twice or takes a step on a node that is no longer there
\* (no double delete, no dereference of the emptied head), and once all
\* the erases have returned the node is freed and the counter is one less
\* than it was (it was the number of nodes inserted).
C12_EraseOnce ==
  /\ "bad_delete" \notin ub
  /\ "null_deref" \notin ub
  /\ RaceDone =>
       /\ find(RaceKey) = NULL
       /\ size = U64(Cardinality(alive))

\* ------------------ one thread, inserts of any keys (repeats too), finds
NextDup ==
  \/ \E id \in Keys, data \in Payloads : SeqInsert(id, data)
  \/ \E id \in Keys : SeqFind(id)
  \/ InsertSteps(1)
  \/ FindStep(1)

SpecDup == Init /\ [][NextDup]_vars

\* The payloads held for key k in its bucket, in chain order from the head.
PayloadsOf(k) ==
  LET e == SelectSeq(Entries(Hash[k]), LAMBDA x : x[1] = k)
  IN  [i \in 1..Len(e) |-> e[i][2]]

\* The number of insert calls made for the first n keys of KeyPool.
RECURSIVE InsertCalls(_)
InsertCalls(n) == IF n = 0 THEN 0 ELSE Len(given[KeyPool[n]]) + InsertCalls(n - 1)

\* The first node with key id in the chain of its bucket (NULL if none).
FirstMatch(id) ==
  LET c == Chain(Hash[id])
      hits == {i \in 1..Len(c) : node[c[i]].id = id}
  IN  IF hits = {} THEN NULL ELSE Ptr(c[Min(hits)])

\* C13: single-threaded with repeated keys, find(k) returns the first node
\* with key k in chain order, which holds the payload of the latest
\* insert(k); at rest the chain holds one node per insert call of k, latest
\* first, and size() is the number of insert calls.
C13_FindFirstMatch ==
  /\ Returned(1, "find") =>
       /\ thread[1].ret = FirstMatch(thread[1].id)
       /\ given[thread[1].id] # <<>> =>
            /\ thread[1].ret # NULL
            /\ node[thread[1].ret.a].data = given[thread[1].id][1]
  /\ Quiescent =>
       /\ \A k \in Keys : PayloadsOf(k) = given[k]
       /\ size = U64(InsertCalls(Len(KeyPool)))

\* A find has returned the later of two nodes of its key, which hold
\* different payloads, behind the node of another key.
C13_Witness ==
  /\ Returned(1, "find")
  /\ Len(given[thread[1].id]) = 2
  /\ given[thread[1].id][1] # given[thread[1].id][2]
  /\ thread[1].ret # NULL
  /\ thread[1].ret # table[Hash[thread[1].id]]
  /\ node[thread[1].ret.a].data = given[thread[1].id][1]

\* ------------- several threads pushing into one bucket that holds a chain
\* Thread 1 first builds a chain of up to ConcOps nodes in bucket 245106
\* (payloads 42 and 43); then every thread t inserts KeyPool[t], a key of
\* that bucket, with the id as the payload.
\* (KeyPool[1], KeyPool[2] and KeyPool[3] are the keys of bucket 245106.)
PushKey(t) == KeyPool[((t - 1) % 3) + 1]

\* Thread t has made its push call.
Pushing(t) == \E i \in 1..Len(given[PushKey(t)]) : given[PushKey(t)][i] = PushKey(t)

PushSetup(id, data) ==
  /\ \A t \in Threads : ~Pushing(t)
  /\ thread[1].calls < ConcOps
  /\ Hash[id] = Hash[PushKey(1)]
  /\ InsertAlloc(1, id, data)
  /\ UNCHANGED snap

Push(t) ==
  /\ ~Pushing(t)
  /\ thread[1].pc = "idle"
  /\ InsertAlloc(t, PushKey(t), PushKey(t))
  /\ UNCHANGED snap

NextPush ==
  \/ \E id \in Keys, data \in Payloads : PushSetup(id, data)
  \/ \E t \in Threads : Push(t) \/ InsertSteps(t)

SpecPush == Init /\ [][NextPush]_vars

\* Every thread's push has returned.
AllPushed == \A t \in Threads : Pushing(t) /\ thread[t].pc = "idle"

\* Thread t's exchange of line 68 succeeds in this step on bucket b.
Published(t, b) ==
  /\ thread[t].pc = "i_cas" /\ thread[t]'.pc = "i_inc"
  /\ Hash[thread[t].id] = b

\* C14: with inserts only, every step leaves each bucket head and the
\* nodes of its chain as they are, except a successful exchange, which
\* makes the head a node that was not in the chain, holding its call's id
\* and payload and the replaced head as next (the new node in front of the
\* unchanged chain); when all pushes are done the chain holds one node per
\* insert call, the pushed nodes in front of the chain that was there.
C14_PushAtHead ==
  [][/\ \A b \in Buckets :
          LET c == Chain(b) IN
          /\ \A i \in 1..Len(c) : node'[c[i]] = node[c[i]]
          /\ \/ table'[b] = table[b]
             \/ \E t \in Threads :
                  LET r == thread[t] IN
                  /\ Published(t, b)
                  /\ table'[b] = r.newNode
                  /\ \A i \in 1..Len(c) : c[i] # r.newNode.a
                  /\ node'[r.newNode.a] = [id |-> r.id, data |-> r.data, next |-> table[b]]
     /\ AllPushed' =>
          LET e == Entries(Hash[PushKey(1)])' IN
          /\ Len(e) = InsertCalls(Len(KeyPool))'
          /\ {e[i] : i \in 1..NumThreads} = {<<PushKey(t), PushKey(t)>> : t \in Threads}
          /\ \A i \in (NumThreads + 1)..Len(e) : e[i][2] \in Payloads]_vars

\* A thread has just published its node in front of a chain that was
\* there before the pushes, while another push into the bucket holds a
\* head it read before and is about to go round its loop again.
C14_Witness ==
  \E t, u \in Threads :
    /\ thread[t].pc = "i_inc" /\ thread[u].pc = "i_cas"
    /\ Pushing(t) /\ Pushing(u)
    /\ table[Hash[thread[t].id]] = thread[t].newNode
    /\ node[thread[t].newNode.a].next # NULL
    /\ Len(Chain(Hash[thread[t].id])) >= 3
    /\ ~SameAddress(table[Hash[thread[u].id]], thread[u].oldHead)

\* Thread t's exchange (line 68 or line 101) fails in this step.
FailedExchange(t) ==
  \/ InsertCas(t) /\ thread[t]'.pc = "i_cas"
  \/ EraseCas(t) /\ thread[t]'.pc = "e_adv"

\* C15: a thread goes round its retry loop only because another thread has
\* updated the head: with one thread running alone no exchange fails,
\* except spuriously on the head the thread expects.
C15_RetryMeansProgress ==
  [][FailedExchange(1) =>
       SameAddress(table[Hash[thread[1].id]], thread[1].oldHead)]_vars

\* ------------------------------------------- calls of Triple_Hash::get
\* Triple_Hash::get without its third stage (the mutant of HashWord).
HashWordTwoStages(w) ==
  The({The({hash2 : hash2 \in {Stage(hash1, PRIME2, MOD2)}}) :
            hash1 \in {Mod64(Mul64(w, PRIME1), MOD1)}})

\* Triple_Hash::get on its uint64_t argument w, given as 8 bytes.
HashWord(w) ==
  The({The({The({hash3 : hash3 \in {Stage(hash2, PRIME3, MOD3)}}) :
                 hash2 \in {Stage(hash1, PRIME2, MOD2)}}) :
                 hash1 \in {Mod64(Mul64(w, PRIME1), MOD1)}})

\* The arguments tried: order ids (the negative ones convert to the top of
\* the uint64_t range), every word whose bytes are 0 or 255, and words
\* with 0, 1, 128 or 255 in bytes 1, 4, 5 and 8.
HashIds == {KeyPool[i] : i \in 1..Len(KeyPool)} \cup {123456, 999999, 1000000, -1, -2, -123456}

HashArgs ==
  {U64(k) : k \in HashIds}
  \cup {<<b1, b2, b3, b4, b5, b6, b7, b8>> :
          b1 \in {0, 255}, b2 \in {0, 255}, b3 \in {0, 255}, b4 \in {0, 255},
          b5 \in {0, 255}, b6 \in {0, 255}, b7 \in {0, 255}, b8 \in {0, 255}}
  \cup {<<b1, 0, 0, b4, b5, 0, 0, b8>> :
          b1 \in {0, 1, 128, 255}, b4 \in {0, 1, 128, 255},
          b5 \in {0, 1, 128, 255}, b8 \in {0, 1, 128, 255}}

\* One call hash = Triple_Hash::get(w) by thread 1: the argument and the
\* result are kept in the caller's record.
HashCall(w) ==
  /\ ~halted /\ thread[1].pc = "idle"
  /\ thread' = [thread EXCEPT ![1] = [Idle EXCEPT !.op = "get", !.id = w, !.data = HashWord(w)]]
  /\ UNCHANGED <<table, node, alive, sizeCounter, ub, halted, given, snap>>

NextHash == \E w \in HashArgs : HashCall(w)

SpecHash == Init /\ [][NextHash]_vars

\* w < 2^32: the four high bytes are 0.
Below32(w) == \A i \in 5..8 : w[i] = 0

\* w >= 2^33, so that w * PRIME1 >= 2^64 (PRIME1 > 2^31).
Above33(w) == w[5] >= 2 \/ \E i \in 6..8 : w[i] > 0

\* C16: every call of Triple_Hash::get returns an index in [0, MAX_SIZE),
\* the value of the three stages on its argument (for an order id, the
\* bucket the table uses); the factors of the second and third products
\* are below 2^32, so only the first product can exceed 64 bits.
C16_HashInRange ==
  thread[1].op = "get" =>
    LET w == thread[1].id
        hash1 == Mod64(Mul64(w, PRIME1), MOD1)
        hash2 == Stage(hash1, PRIME2, MOD2)
    IN  /\ thread[1].data \in 0..(MAX_SIZE - 1)
        /\ thread[1].data = Stage(hash2, PRIME3, MOD3)
        /\ hash1 \in 0..(MOD1 - 1) /\ hash2 \in 0..(MOD2 - 1)
        /\ Below32(U64(hash1)) /\ Below32(PRIME2)
        /\ Below32(U64(hash2)) /\ Below32(PRIME3)
        /\ \A k \in HashIds : w = U64(k) => thread[1].data = get(k)
        /\ \A k \in DOMAIN Hash : w = U64(k) => thread[1].data = Hash[k]

\* A call whose first product id * PRIME1 exceeds 64 bits has returned an
\* index that is not 0.
C16_Witness ==
  /\ thread[1].op = "get"
  /\ Above33(thread[1].id)
  /\ thread[1].data \in 1..(MAX_SIZE - 1)

\* ------------------- two threads, fixed calls, with reuse of addresses
\* Thread 1 calls insert(100), erase(201949); thread 2 calls
\* insert(201949), erase(201949), erase(100), insert(403798), insert(200),
\* every insert with the id as the payload (100, 201949 and 403798 share a
\* bucket, 200 has another).  Further threads make no calls.
ReuseCalls(t) ==
  IF t = 1 THEN << <<"insert", KeyPool[1]>>, <<"erase", KeyPool[2]>> >>
  ELSE IF t = 2 THEN << <<"insert", KeyPool[2]>>, <<"erase", KeyPool[2]>>,
                        <<"erase", KeyPool[1]>>, <<"insert", KeyPool[3]>>,
                        <<"insert", KeyPool[4]>> >>
  ELSE <<>>

\* Thread t makes its next call.
ReuseCall(t) ==
  /\ thread[t].calls < Len(ReuseCalls(t))
  /\ LET c == ReuseCalls(t)[thread[t].calls + 1]
     IN  IF c[1] = "insert" THEN InsertAlloc(t, c[2], c[2])
         ELSE EraseLoad(t, c[2]) /\ UNCHANGED given
  /\ UNCHANGED snap

NextReuse ==
  \E t \in Threads :
    ReuseCall(t) \/ InsertSteps(t) \/ EraseSteps(t) \/ ReadCrash(t)

SpecReuse == Init /\ [][NextReuse]_vars

\* The addresses reached from pointer p by following next through the
\* memory as it is, whether or not a pointer on the way dangles; the walk
\* stops at nullptr, at freed memory and after fuel nodes.
RECURSIVE Follow(_, _)
Follow(p, fuel) ==
  IF p.a = 0 \/ fuel = 0 THEN <<>>
  ELSE IF p.a \notin alive THEN <<p.a>>
  ELSE <<p.a>> \o Follow(node[p.a].next, fuel - 1)

Links(b) == Follow(table[b], MaxNodes + 1)

\* C17: as long as no undefined behaviour has been executed, the nodes
\* reached from a bucket head are reached once (no cycle, so the chain
\* ends), each holds an id of that bucket, and none is reached from two
\* bucket heads.
C17_ChainsWellFormed ==
  ub = {} =>
    \A b \in Buckets :
      /\ \A i, j \in 1..Len(Links(b)) : Links(b)[i] = Links(b)[j] => i = j
      /\ \A i \in 1..Len(Links(b)) :
           Links(b)[i] \in alive => Hash[node[Links(b)[i]].id] = b
      /\ \A c \in Buckets \ {b} :
           \A i \in 1..Len(Links(b)), j \in 1..Len(Links(c)) : Links(b)[i] # Links(c)[j]

\* C18: as long as no undefined behaviour has been executed, no bucket
\* head and no next link of a node reached from a bucket head holds the
\* address of freed memory.
C18_NoLinkToFreed ==
  ub = {} =>
    \A b \in Buckets : \A i \in 1..Len(Links(b)) : Links(b)[i] \in alive

\* The insert calls that have executed their fetch_add of line 73.
Incremented ==
  InsertCalls(Len(KeyPool))
    - Cardinality({t \in Threads : thread[t].pc \in {"i_load", "i_cas", "i_inc"}})

\* The 64-bit word w is at most n, for 0 <= n < 256.
AtMost(w, n) == w[1] <= n /\ \A i \in 2..8 : w[i] = 0

\* C19: the counter never wraps below zero: size() is at most the number
\* of inserts that have executed their increment.
C19_CounterNoWrap == AtMost(size, Incremented)

\* C20: with inserts only, size() is at every instant the number of
\* inserts that have executed their increment, and that number is at most
\* the number of nodes reachable from the bucket heads.
C20_CountAfterPublish ==
  /\ size = U64(Incremented)
  /\ Incremented <= Cardinality(Reachable)

\* Two inserts have published their nodes and not yet counted them, after
\* other inserts have returned.
C20_Witness ==
  /\ \A t \in {1, 2} : thread[t].pc = "i_inc"
  /\ Incremented >= 1
  /\ Cardinality(Reachable) >= Incremented + 2
  /\ size = U64(Incremented)

====
